---- MODULE Spec2Model ----
\* A model of dify_api_utils.py: call_dify_api uploads the listed files, sends
\* one chat-messages request and reads the answer, either from a blocking
\* response or from a streamed response decoded line by line.
\*
\* Bytes and characters are integers (byte values, Unicode code points); a
\* text or a byte string is a sequence of them.  JSON values are records
\* [t, s, m]: t is the kind ("obj", "arr", "str", "num", "lit"), s the text of
\* a string, number or literal, m the members of an object or array as a
\* sequence of [k, v] records (k is <<>> for array elements).
EXTENDS Integers, Sequences, FiniteSets, TLC

\* ---------------------------------------------------------------- bounds

\* Longest stream body, in lines, and longest files argument.
MaxLines == 2
MaxFiles == 2

\* ------------------------------------------------------ program constants

\* iter_content(chunk_size=32): a chunk holds at most 32 bytes.
ChunkSize == 32
\* The one status dify_api_error_handler accepts, and the two upload_files accepts.
StatusOK == 200
StatusCreated == 201
\* line[6:] after startswith('data: ').
PrefixLen == 6

NL == 10
QUOTE == 34
BACKSLASH == 92
DOT == 46
SLASH == 47

Str_data == <<100,97,116,97,58,32>>          \* 'data: '
Str_event == <<101,118,101,110,116>>         \* 'event'
Str_message == <<109,101,115,115,97,103,101>> \* 'message'
Str_answer == <<97,110,115,119,101,114>>     \* 'answer'
Str_id == <<105,100>>                        \* 'id'

\* ------------------------------------------------------------ sequences

Drop(s, n) == SubSeq(s, n + 1, Len(s))
Take(s, n) == SubSeq(s, 1, n)

RECURSIVE Flatten(_)
Flatten(ss) == IF ss = <<>> THEN <<>> ELSE Head(ss) \o Flatten(Tail(ss))

\* Sequences over S of length at most n.
SeqsUpTo(S, n) == UNION {[1..k -> S] : k \in 0..n}

\* ------------------------------------------------- bytes.decode('utf-8')

IsCont(b) == b >= 128 /\ b <= 191

\* The number of bytes of the character a lead byte starts; 0 for a byte that
\* cannot start one.
Utf8Need(b) ==
    IF b < 128 THEN 1
    ELSE IF b >= 194 /\ b <= 223 THEN 2
    ELSE IF b >= 224 /\ b <= 239 THEN 3
    ELSE IF b >= 240 /\ b <= 244 THEN 4
    ELSE 0

\* The second byte's range depends on the lead byte (no overlong forms, no
\* surrogates, nothing above U+10FFFF).
Utf8SecondOK(lead, b) ==
    /\ IsCont(b)
    /\ (lead = 224 => b >= 160)
    /\ (lead = 237 => b <= 159)
    /\ (lead = 240 => b >= 144)
    /\ (lead = 244 => b <= 143)

Utf8Char(bs, i, n) ==
    IF n = 1 THEN bs[i]
    ELSE IF n = 2 THEN (bs[i] - 192) * 64 + (bs[i + 1] - 128)
    ELSE IF n = 3 THEN (bs[i] - 224) * 4096 + (bs[i + 1] - 128) * 64 + (bs[i + 2] - 128)
    ELSE (bs[i] - 240) * 262144 + (bs[i + 1] - 128) * 4096
         + (bs[i + 2] - 128) * 64 + (bs[i + 3] - 128)

\* Whether a whole character starts at i: a lead byte, followed in bs by the
\* continuation bytes it needs.
Utf8CharAt(bs, i) ==
    LET n == Utf8Need(bs[i]) IN
    /\ n > 0
    /\ i + n - 1 <= Len(bs)
    /\ n >= 2 => Utf8SecondOK(bs[i], bs[i + 1])
    /\ \A h \in (i + 2)..(i + n - 1) : IsCont(bs[h])

\* Whether the continuation byte at i belongs to a character that starts
\* at most three bytes before it.
Utf8Covered(bs, i) ==
    \E j \in 1..(i - 1) :
        /\ i - j <= 3
        /\ ~IsCont(bs[j])
        /\ Utf8Need(bs[j]) > i - j
        /\ \A h \in (j + 1)..i : IsCont(bs[h])

\* chunk.decode('utf-8'), strict: ok is FALSE where Python raises
\* UnicodeDecodeError (a byte that starts no character, a character cut short
\* by the end of bs, a continuation byte no character owns); text is the
\* characters, one per lead byte, in order.  Bytes that are all ASCII are
\* their own text.
Utf8Decode(bs) ==
    IF \A i \in 1..Len(bs) : bs[i] < 128 THEN [ok |-> TRUE, text |-> bs]
    ELSE IF \A i \in 1..Len(bs) :
                IF IsCont(bs[i]) THEN Utf8Covered(bs, i) ELSE Utf8CharAt(bs, i)
    THEN LET leads == SelectSeq([i \in 1..Len(bs) |-> i], LAMBDA i : ~IsCont(bs[i])) IN
         [ok |-> TRUE,
          text |-> [k \in 1..Len(leads) |-> Utf8Char(bs, leads[k], Utf8Need(bs[leads[k]]))]]
    ELSE [ok |-> FALSE, text |-> <<>>]

\* ------------------------------------------------------------ str methods

\* The characters str.strip() removes.
PyWhitespace ==
    {9, 10, 11, 12, 13, 28, 29, 30, 31, 32, 133, 160, 5760, 8232, 8233, 8239, 8287, 12288}
    \cup (8192..8202)

RECURSIVE LStrip(_)
LStrip(s) == IF s # <<>> /\ Head(s) \in PyWhitespace THEN LStrip(Tail(s)) ELSE s

RECURSIVE RStrip(_)
RStrip(s) ==
    IF s # <<>> /\ s[Len(s)] \in PyWhitespace THEN RStrip(Take(s, Len(s) - 1)) ELSE s

\* line.strip()
Strip(s) == RStrip(LStrip(s))

\* s.startswith(p)
StartsWith(s, p) == Len(s) >= Len(p) /\ Take(s, Len(p)) = p

\* '\n' in buffer
HasNewline(s) == \E i \in 1..Len(s) : s[i] = NL

\* The index of the first c in s; 0 when there is none.
IndexOf(s, c) ==
    IF \E i \in 1..Len(s) : s[i] = c
    THEN CHOOSE i \in 1..Len(s) : s[i] = c /\ \A j \in 1..(i - 1) : s[j] # c
    ELSE 0

\* A split that leaves the newline at the front of the rest.
SplitNewline_KeepsNewline(s) ==
    LET i == IndexOf(s, NL) IN [line |-> Take(s, i - 1), rest |-> Drop(s, i - 1)]

\* buffer.split('\n', 1) on a buffer that holds a newline: the text before the
\* first newline, and the text after it.
SplitNewline(s) ==
    LET i == IndexOf(s, NL) IN [line |-> Take(s, i - 1), rest |-> Drop(s, i)]

\* ------------------------------------------------------------ json.loads
\* The parser of json.loads for the texts the model feeds it: objects, arrays,
\* strings with the one-character escapes, integers with an optional fraction,
\* and the literals.  A \uXXXX escape and an exponent are not in the model's
\* inputs and are rejected here.

JNull == [t |-> "lit", s |-> <<110,117,108,108>>, m |-> <<>>]
JStr(s) == [t |-> "str", s |-> s, m |-> <<>>]
JFail == [ok |-> FALSE, v |-> JNull, i |-> 0]
JOk(v, i) == [ok |-> TRUE, v |-> v, i |-> i]

\* The whitespace the JSON scanner skips: ' ', \t, \n, \r.
JsonWs == {32, 9, 10, 13}
Digits == 48..57

JsonLiterals ==
    { <<110,117,108,108>>,                  \* null
      <<116,114,117,101>>,                  \* true
      <<102,97,108,115,101>>,               \* false
      <<78,97,78>>,                         \* NaN
      <<73,110,102,105,110,105,116,121>>,   \* Infinity
      <<45,73,110,102,105,110,105,116,121>> \* -Infinity
    }

\* What the escape \c stands for; 0 for a c that is no escape.
Unescape(c) ==
    IF c \in {QUOTE, BACKSLASH, SLASH} THEN c
    ELSE IF c = 98 THEN 8
    ELSE IF c = 102 THEN 12
    ELSE IF c = 110 THEN 10
    ELSE IF c = 114 THEN 13
    ELSE IF c = 116 THEN 9
    ELSE 0

RECURSIVE SkipWs(_, _)
SkipWs(x, i) == IF i <= Len(x) /\ x[i] \in JsonWs THEN SkipWs(x, i + 1) ELSE i

\* The string whose opening quote is at i - 1: its text, and the index after
\* its closing quote.
RECURSIVE ScanString(_, _, _)
ScanString(x, i, acc) ==
    IF i > Len(x) THEN JFail
    ELSE IF x[i] = QUOTE THEN JOk(JStr(acc), i + 1)
    ELSE IF x[i] < 32 THEN JFail
    ELSE IF x[i] = BACKSLASH THEN
        IF i + 1 > Len(x) \/ Unescape(x[i + 1]) = 0 THEN JFail
        ELSE ScanString(x, i + 2, Append(acc, Unescape(x[i + 1])))
    ELSE ScanString(x, i + 1, Append(acc, x[i]))

RECURSIVE SkipDigits(_, _)
SkipDigits(x, i) == IF i <= Len(x) /\ x[i] \in Digits THEN SkipDigits(x, i + 1) ELSE i

\* -?(0|[1-9]\d*)(\.\d+)? at i.
ScanNumber(x, i) ==
    LET d == IF i <= Len(x) /\ x[i] = 45 THEN i + 1 ELSE i
        e == IF d <= Len(x) /\ x[d] = 48 THEN d + 1 ELSE SkipDigits(x, d)
        f == IF e + 1 <= Len(x) /\ x[e] = DOT /\ x[e + 1] \in Digits
             THEN SkipDigits(x, e + 1) ELSE e
    IN IF e = d THEN JFail
       ELSE JOk([t |-> "num", s |-> SubSeq(x, i, f - 1), m |-> <<>>], f)

ScanLiteral(x, i) ==
    LET hits == {l \in JsonLiterals : StartsWith(Drop(x, i - 1), l)} IN
    IF hits = {} THEN JFail
    ELSE LET l == CHOOSE l \in hits : TRUE IN
         JOk([t |-> "lit", s |-> l, m |-> <<>>], i + Len(l))

RECURSIVE ScanValue(_, _)
RECURSIVE ScanMembers(_, _, _)
RECURSIVE ScanElements(_, _, _)

\* The members of an object after '{' or ',': i is at the key's opening quote.
ScanMembers(x, i, acc) ==
    IF i > Len(x) \/ x[i] # QUOTE THEN JFail
    ELSE LET k == ScanString(x, i + 1, <<>>) IN
         IF ~k.ok THEN JFail
         ELSE LET c == SkipWs(x, k.i) IN
              IF c > Len(x) \/ x[c] # 58 THEN JFail
              ELSE LET v == ScanValue(x, SkipWs(x, c + 1)) IN
                   IF ~v.ok THEN JFail
                   ELSE LET e == SkipWs(x, v.i)
                            more == Append(acc, [k |-> k.v.s, v |-> v.v])
                        IN IF e > Len(x) THEN JFail
                           ELSE IF x[e] = 125
                           THEN JOk([t |-> "obj", s |-> <<>>, m |-> more], e + 1)
                           ELSE IF x[e] = 44
                           THEN ScanMembers(x, SkipWs(x, e + 1), more)
                           ELSE JFail

\* The elements of an array after '[' or ','.
ScanElements(x, i, acc) ==
    LET v == ScanValue(x, i) IN
    IF ~v.ok THEN JFail
    ELSE LET e == SkipWs(x, v.i)
             more == Append(acc, [k |-> <<>>, v |-> v.v])
         IN IF e > Len(x) THEN JFail
            ELSE IF x[e] = 93 THEN JOk([t |-> "arr", s |-> <<>>, m |-> more], e + 1)
            ELSE IF x[e] = 44 THEN ScanElements(x, SkipWs(x, e + 1), more)
            ELSE JFail

ScanValue(x, i) ==
    IF i > Len(x) THEN JFail
    ELSE IF x[i] = QUOTE THEN ScanString(x, i + 1, <<>>)
    ELSE IF x[i] = 123 THEN
        LET j == SkipWs(x, i + 1) IN
        IF j <= Len(x) /\ x[j] = 125
        THEN JOk([t |-> "obj", s |-> <<>>, m |-> <<>>], j + 1)
        ELSE ScanMembers(x, j, <<>>)
    ELSE IF x[i] = 91 THEN
        LET j == SkipWs(x, i + 1) IN
        IF j <= Len(x) /\ x[j] = 93
        THEN JOk([t |-> "arr", s |-> <<>>, m |-> <<>>], j + 1)
        ELSE ScanElements(x, j, <<>>)
    ELSE IF x[i] \in Digits \/ (x[i] = 45 /\ i < Len(x) /\ x[i + 1] \in Digits)
    THEN ScanNumber(x, i)
    ELSE ScanLiteral(x, i)

\* json.loads(text): ok is FALSE where Python raises JSONDecodeError (a
\* ValueError); text left over after the value is an error too.
JsonLoads(x) ==
    LET r == ScanValue(x, SkipWs(x, 1)) IN
    IF r.ok /\ SkipWs(x, r.i) = Len(x) + 1 THEN r ELSE JFail

\* ------------------------------------------------------------ dict access

\* key in data, for a dict.
HasKey(d, key) == \E j \in 1..Len(d.m) : d.m[j].k = key

\* data[key], for a dict that has the key: the last member of that name.
GetKey(d, key) ==
    LET j == CHOOSE j \in 1..Len(d.m) :
                 d.m[j].k = key /\ \A h \in (j + 1)..Len(d.m) : d.m[h].k # key
    IN d.m[j].v

\* ---------------------------------------------------------------- os.path

\* The index of the last c in s; 0 when there is none.
LastIndexOf(s, c) ==
    IF \E i \in 1..Len(s) : s[i] = c
    THEN CHOOSE i \in 1..Len(s) : s[i] = c /\ \A j \in (i + 1)..Len(s) : s[j] # c
    ELSE 0

\* os.path.basename(path)
Basename(path) == Drop(path, LastIndexOf(path, SLASH))

\* os.path.splitext(name)[1]: from the last dot on, unless only dots precede it.
SplitExt(name) ==
    LET d == LastIndexOf(name, DOT) IN
    IF d > 0 /\ \E j \in 1..(d - 1) : name[j] # DOT THEN Drop(name, d - 1) ELSE <<>>

\* str.lower(), on the ASCII letters.
Lower(s) == [i \in 1..Len(s) |-> IF s[i] >= 65 /\ s[i] <= 90 THEN s[i] + 32 ELSE s[i]]

RECURSIVE LStripDots(_)
LStripDots(s) == IF s # <<>> /\ Head(s) = DOT THEN LStripDots(Tail(s)) ELSE s

\* file_ext of upload_files: the extension, lower-cased, without its dot.
FileExt(path) == LStripDots(Lower(SplitExt(Basename(path))))

AllowedExts ==
    { <<112,110,103>>,     \* png
      <<106,112,103>>,     \* jpg
      <<106,112,101,103>>, \* jpeg
      <<119,101,98,112>>,  \* webp
      <<103,105,102>>      \* gif
    }

\* ----------------------------------------------------------------- inputs

Path_a == <<117,47,97,46,112,110,103>>  \* 'u/a.png'
Path_B == <<66,46,74,80,71>>            \* 'B.JPG'
Path_c == <<99,46,116,120,116>>         \* 'c.txt'
Path_x == <<120,46,112,110,103>>        \* 'x.png'

\* The paths a caller lists, and those of them os.path.isfile finds.
Paths == {Path_a, Path_B, Path_c, Path_x}
ExistingFiles == {Path_a, Path_B, Path_c}

Body_id1 == <<123,34,105,100,34,58,34,102,49,34,125>>                   \* '{"id":"f1"}'
Body_id2 == <<123,34,105,100,34,58,34,102,50,34,125>>                   \* '{"id":"f2"}'
Body_msg == <<123,34,109,101,115,115,97,103,101,34,58,34,110,111,34,125>> \* '{"message":"no"}'
Body_arr == <<91,93>>                                                   \* '[]'
Body_text == <<111,111,112,115>>                                        \* 'oops'
Body_code == <<123,34,99,111,100,101,34,58,34,120,34,125>>              \* '{"code":"x"}'
Body_answer == <<123,34,97,110,115,119,101,114,34,58,34,72,105,34,125>> \* '{"answer":"Hi"}'
Body_empty == <<123,125>>                                               \* '{}'

\* What the server may answer an upload, a refused chat request and a
\* blocking chat request with.
UploadStatuses == {StatusOK, StatusCreated, 500}
UploadBodies == {Body_id1, Body_id2, Body_msg, Body_arr, Body_text}
ChatStatuses == {StatusOK, StatusCreated, 401}
ErrorBodies == {Body_code, Body_arr, Body_text}
BlockingBodies == {Body_answer, Body_empty, Body_arr, Body_text}

\* The lines of a streamed body.
\* 'data: {"event":"message","answer":"Hi"}'
Line_hi ==
    <<100,97,116,97,58,32,123,34,101,118,101,110,116,34,58,34,109,101,115,115,97,103,
      101,34,44,34,97,110,115,119,101,114,34,58,34,72,105,34,125>>
\* '{"event":"message","answer":"你"}', the answer a three-byte character
Line_ni ==
    <<123,34,101,118,101,110,116,34,58,34,109,101,115,115,97,103,101,34,44,34,97,110,
      115,119,101,114,34,58,34,228,189,160,34,125>>
\* 'data: {"event":"ping","answer":"x"}'
Line_ping ==
    <<100,97,116,97,58,32,123,34,101,118,101,110,116,34,58,34,112,105,110,103,34,44,
      34,97,110,115,119,101,114,34,58,34,120,34,125>>
\* '{"event":"message"}'
Line_noanswer == <<123,34,101,118,101,110,116,34,58,34,109,101,115,115,97,103,101,34,125>>
\* '{"answer":"x"}'
Line_noevent == <<123,34,97,110,115,119,101,114,34,58,34,120,34,125>>
\* ': ka', a comment line
Line_ka == <<58,32,107,97>>
Line_empty == <<>>

Catalog == {Line_hi, Line_ni, Line_ping, Line_noanswer, Line_noevent, Line_ka, Line_empty}

\* The line sequences bodies are made of: every sequence of at most n catalog
\* lines, and the three-line stream of an empty line, a comment and a message.
LineSeqs(n) == SeqsUpTo(Catalog, n) \cup {<<Line_empty, Line_ka, Line_hi>>}

\* The bytes of a body: each line followed by a newline, the last one only
\* when the stream ends on a line boundary.
RECURSIVE JoinLines(_, _)
JoinLines(ls, terminated) ==
    IF ls = <<>> THEN <<>>
    ELSE IF Len(ls) = 1 THEN Head(ls) \o (IF terminated THEN <<NL>> ELSE <<>>)
    ELSE Head(ls) \o <<NL>> \o JoinLines(Tail(ls), terminated)

StreamBodies(n) == {JoinLines(ls, t) : ls \in LineSeqs(n), t \in BOOLEAN}

\* ------------------------------------------------------------------ state

VARIABLES
    pc,                \* where the call is
    files,             \* call_dify_api's files argument
    mode,              \* its response_mode: "blocking" or "streaming"
    idx,               \* upload_files: the index of the next file_path
    uploaded_file_ids, \* upload_files: the ids collected so far
    uploads,           \* the network: the paths posted to /files/upload, in order
    upload_status,     \* upload_files: the last response's status_code; 0 for none
    chats,             \* the network: the payloads posted to /chat-messages, in order
    status,            \* the chat response's status_code; 0 before there is one
    body,              \* the chat response's body
    pos,               \* the number of bytes of body iter_content has handed out
    buffer,            \* handle_streaming_response: buffer
    answer_list,       \* handle_streaming_response: answer_list
    printed,           \* what print() has shown, in order
    result,            \* call_dify_api's return value
    error              \* the exception the call raised; "" for none

vars ==
    <<pc, files, mode, idx, uploaded_file_ids, uploads, upload_status, chats, status, body, pos,
      buffer, answer_list, printed, result, error>>

NoResult == [t |-> "none", s |-> <<>>, m |-> <<>>]

upload_vars == <<idx, uploaded_file_ids, uploads, upload_status>>
response_vars == <<status, body, pos>>
decoder_vars == <<buffer, answer_list, printed>>

Init ==
    /\ pc = "upload"
    /\ files \in SeqsUpTo(Paths, MaxFiles)
    /\ mode \in {"blocking", "streaming"}
    /\ idx = 1
    /\ uploaded_file_ids = <<>>
    /\ uploads = <<>>
    /\ upload_status = 0
    /\ chats = <<>>
    /\ status = 0
    /\ body = <<>>
    /\ pos = 0
    /\ buffer = <<>>
    /\ answer_list = <<>>
    /\ printed = <<>>
    /\ result = NoResult
    /\ error = ""

\* An exception leaves the call: nothing is returned.
Raise(e) ==
    /\ pc' = "raised"
    /\ error' = e
    /\ UNCHANGED result

\* --------------------------------------------------------- upload_files

\* What one response to an upload leads to (lines 86-95): the exception
\* raised, or the id appended.
UploadOutcome(st, rbody) ==
    LET r == JsonLoads(rbody) IN
    IF st # StatusOK /\ st # StatusCreated THEN
        [err |-> IF r.ok /\ r.v.t # "obj" THEN "AttributeError" ELSE "DifyAPIError",
         id |-> JNull]
    ELSE IF ~r.ok THEN [err |-> "ValueError", id |-> JNull]
    ELSE IF r.v.t # "obj" THEN [err |-> "TypeError", id |-> JNull]
    ELSE IF ~HasKey(r.v, Str_id) THEN [err |-> "KeyError", id |-> JNull]
    ELSE [err |-> "", id |-> GetKey(r.v, Str_id)]

\* One iteration of the loop over files: the two checks, the upload, and the
\* response's handling.
UploadFile ==
    /\ pc = "upload"
    /\ idx <= Len(files)
    /\ LET file_path == files[idx] IN
       IF file_path \notin ExistingFiles \/ FileExt(file_path) \notin AllowedExts
       THEN /\ Raise("DifyAPIError")
            /\ UNCHANGED upload_vars
       ELSE \E st \in UploadStatuses, rbody \in UploadBodies :
                LET o == UploadOutcome(st, rbody) IN
                /\ uploads' = Append(uploads, file_path)
                /\ upload_status' = st
                /\ IF o.err # ""
                   THEN /\ Raise(o.err)
                        /\ UNCHANGED <<idx, uploaded_file_ids>>
                   ELSE /\ uploaded_file_ids' = Append(uploaded_file_ids, o.id)
                        /\ idx' = idx + 1
                        /\ UNCHANGED <<pc, error, result>>
    /\ UNCHANGED <<files, mode, chats, response_vars, decoder_vars>>

\* ------------------------------------------------- prepare_chat_request

\* The payload's 'files' entry, one record per uploaded id.
PayloadFiles(ids) ==
    [i \in 1..Len(ids) |->
        [type |-> "image", transfer_method |-> "local_file", upload_file_id |-> ids[i]]]

Payload == [response_mode |-> mode, files |-> PayloadFiles(uploaded_file_ids)]

\* The bodies a streamed answer is drawn from: the decoder does not read the
\* payload, and the bodies of more than one line are explored for the calls
\* that upload nothing.
StreamBodiesFor(ids) ==
    IF ids = <<>> THEN StreamBodies(MaxLines) ELSE {JoinLines(<<Line_hi>>, TRUE)}

\* upload_files has returned; handle_blocking_response or
\* handle_streaming_response posts the chat request and gets a response.
PostChat ==
    /\ pc = "upload"
    /\ idx > Len(files)
    /\ chats' = Append(chats, Payload)
    /\ \E st \in ChatStatuses :
           /\ status' = st
           /\ body' \in IF st # StatusOK THEN ErrorBodies
                        ELSE IF mode = "blocking" THEN BlockingBodies
                        ELSE StreamBodiesFor(uploaded_file_ids)
    /\ pc' = "handler"
    /\ UNCHANGED <<files, mode, upload_vars, pos, decoder_vars, result, error>>

\* ------------------------------------------------ dify_api_error_handler

\* The exception dify_api_error_handler raises for a response; "" for none.
HandlerError(st, rbody) ==
    LET r == JsonLoads(rbody) IN
    IF st = StatusOK THEN ""
    ELSE IF r.ok /\ r.v.t # "obj" THEN "AttributeError"
    ELSE "DifyAPIError"

ErrorHandler ==
    /\ pc = "handler"
    /\ LET e == HandlerError(status, body) IN
       IF e # "" THEN Raise(e)
       ELSE /\ pc' = IF mode = "blocking" THEN "blocking" ELSE "iter"
            /\ UNCHANGED <<result, error>>
    /\ UNCHANGED <<files, mode, upload_vars, chats, response_vars, decoder_vars>>

\* ----------------------------------------------- handle_blocking_response

\* return response.json()['answer']
BlockingReturn ==
    /\ pc = "blocking"
    /\ LET r == JsonLoads(body) IN
       IF ~r.ok THEN Raise("ValueError")
       ELSE IF r.v.t # "obj" THEN Raise("TypeError")
       ELSE IF ~HasKey(r.v, Str_answer) THEN Raise("KeyError")
       ELSE /\ result' = GetKey(r.v, Str_answer)
            /\ pc' = "done"
            /\ UNCHANGED error
    /\ UNCHANGED <<files, mode, upload_vars, chats, response_vars, decoder_vars>>

\* ---------------------------------------------- handle_streaming_response

\* A handler that lets the parse error of a line leave the loop.
HandleLine_RaisesOnBadJson(raw, answers) ==
    LET line == Strip(raw)
        text == IF StartsWith(line, Str_data) THEN Drop(line, PrefixLen) ELSE line
        r == JsonLoads(text)
    IN IF line = <<>> THEN [err |-> "", answers |-> answers]
       ELSE IF ~r.ok THEN [err |-> "JSONDecodeError", answers |-> answers]
       ELSE IF r.v.t # "obj" THEN [err |-> "TypeError", answers |-> answers]
       ELSE IF ~HasKey(r.v, Str_event) THEN [err |-> "KeyError", answers |-> answers]
       ELSE IF GetKey(r.v, Str_event) = JStr(Str_message) /\ HasKey(r.v, Str_answer)
       THEN [err |-> "", answers |-> Append(answers, GetKey(r.v, Str_answer))]
       ELSE [err |-> "", answers |-> answers]

\* A handler that takes the answer of an event of any kind.
HandleLine_AnyKind(raw, answers) ==
    LET line == Strip(raw)
        text == IF StartsWith(line, Str_data) THEN Drop(line, PrefixLen) ELSE line
        r == JsonLoads(text)
    IN IF line = <<>> THEN [err |-> "", answers |-> answers]
       ELSE IF ~r.ok THEN [err |-> "", answers |-> answers]
       ELSE IF r.v.t # "obj" THEN [err |-> "TypeError", answers |-> answers]
       ELSE IF ~HasKey(r.v, Str_event) THEN [err |-> "KeyError", answers |-> answers]
       ELSE IF HasKey(r.v, Str_answer)
       THEN [err |-> "", answers |-> Append(answers, GetKey(r.v, Str_answer))]
       ELSE [err |-> "", answers |-> answers]

\* Lines 160-174 for one extracted line: the exception raised ("" for none)
\* and the answers after it.
HandleLine(raw, answers) ==
    LET line == Strip(raw)
        text == IF StartsWith(line, Str_data) THEN Drop(line, PrefixLen) ELSE line
        r == JsonLoads(text)
    IN IF line = <<>> THEN [err |-> "", answers |-> answers]
       ELSE IF ~r.ok THEN [err |-> "", answers |-> answers]
       ELSE IF r.v.t # "obj" THEN [err |-> "TypeError", answers |-> answers]
       ELSE IF ~HasKey(r.v, Str_event) THEN [err |-> "KeyError", answers |-> answers]
       ELSE IF GetKey(r.v, Str_event) = JStr(Str_message) /\ HasKey(r.v, Str_answer)
       THEN [err |-> "", answers |-> Append(answers, GetKey(r.v, Str_answer))]
       ELSE [err |-> "", answers |-> answers]

\* A buffer that keeps the last chunk only.
AppendChunk_Overwrite(buf, text) == text

\* buffer += chunk.decode('utf-8')
AppendChunk(buf, text) == buf \o text

\* The next chunk of the body: the loop's `buffer += chunk.decode('utf-8')`,
\* then the test of the while loop.  An empty chunk is skipped.
RecvChunk ==
    /\ pc = "iter"
    /\ \E n \in 0..ChunkSize :
           /\ pos + n <= Len(body)
           /\ LET d == Utf8Decode(SubSeq(body, pos + 1, pos + n)) IN
              /\ pos' = pos + n
              /\ IF ~d.ok
                 THEN /\ Raise("UnicodeDecodeError")
                      /\ UNCHANGED buffer
                 ELSE /\ buffer' = AppendChunk(buffer, d.text)
                      /\ pc' = IF HasNewline(buffer') THEN "while" ELSE "iter"
                      /\ UNCHANGED <<result, error>>
    /\ UNCHANGED <<files, mode, upload_vars, chats, status, body, answer_list, printed>>

\* A transport failure that ends the loop as the end of the stream does.
TransportFail_ReturnsPartial ==
    /\ pc = "iter"
    /\ pc' = "done"
    /\ result' = JStr(Flatten([i \in 1..Len(answer_list) |-> answer_list[i].s]))
    /\ UNCHANGED <<error, files, mode, upload_vars, chats, response_vars, decoder_vars>>

\* The transport fails while the next chunk is awaited: iter_content raises.
TransportFail ==
    /\ pc = "iter"
    /\ Raise("ChunkedEncodingError")
    /\ UNCHANGED <<files, mode, upload_vars, chats, response_vars, decoder_vars>>

\* One iteration of `while '\n' in buffer`.
ExtractLine ==
    /\ pc = "while"
    /\ LET sp == SplitNewline(buffer)
           h == HandleLine(sp.line, answer_list)
       IN /\ buffer' = sp.rest
          /\ answer_list' = h.answers
          /\ printed' = printed \o SubSeq(h.answers, Len(answer_list) + 1, Len(h.answers))
          /\ IF h.err # "" THEN Raise(h.err)
             ELSE /\ pc' = IF HasNewline(sp.rest) THEN "while" ELSE "iter"
                  /\ UNCHANGED <<result, error>>
    /\ UNCHANGED <<files, mode, upload_vars, chats, response_vars>>

\* ''.join(answer_list): ok is FALSE where an answer is no str (TypeError).
Join(answers) ==
    IF \A i \in 1..Len(answers) : answers[i].t = "str"
    THEN [ok |-> TRUE, v |-> JStr(Flatten([i \in 1..Len(answers) |-> answers[i].s]))]
    ELSE [ok |-> FALSE, v |-> JNull]

\* A return that first handles what is left in the buffer as a last line.
Return_FlushesTail ==
    /\ pc = "iter"
    /\ pos = Len(body)
    /\ LET h == HandleLine(buffer, answer_list)
           j == Join(h.answers)
       IN IF h.err # "" THEN Raise(h.err)
          ELSE IF ~j.ok THEN Raise("TypeError")
          ELSE /\ result' = j.v
               /\ pc' = "done"
               /\ UNCHANGED error
    /\ UNCHANGED <<files, mode, upload_vars, chats, response_vars, decoder_vars>>

\* The stream is exhausted: return ''.join(answer_list).
Return ==
    /\ pc = "iter"
    /\ pos = Len(body)
    /\ LET j == Join(answer_list) IN
       IF ~j.ok THEN Raise("TypeError")
       ELSE /\ result' = j.v
            /\ pc' = "done"
            /\ UNCHANGED error
    /\ UNCHANGED <<files, mode, upload_vars, chats, response_vars, decoder_vars>>

\* The while loop run to its end on one buffer: the exception raised ("" for
\* none), the answers, and what stays in the buffer.
RECURSIVE Drain(_, _)
Drain(buf, answers) ==
    IF ~HasNewline(buf) THEN [err |-> "", answers |-> answers, buffer |-> buf]
    ELSE LET sp == SplitNewline(buf)
             h == HandleLine(sp.line, answers)
         IN IF h.err # "" THEN [err |-> h.err, answers |-> h.answers, buffer |-> sp.rest]
            ELSE Drain(sp.rest, h.answers)

\* handle_streaming_response on a body that arrives as one chunk: the
\* exception it raises ("" for none) and the value it returns.
OneChunkOutcome(bytes) ==
    LET d == Utf8Decode(bytes)
        r == Drain(d.text, <<>>)
        j == Join(r.answers)
    IN IF ~d.ok THEN [error |-> "UnicodeDecodeError", result |-> NoResult]
       ELSE IF r.err # "" THEN [error |-> r.err, result |-> NoResult]
       ELSE IF ~j.ok THEN [error |-> "TypeError", result |-> NoResult]
       ELSE [error |-> "", result |-> j.v]

Next ==
    \/ UploadFile
    \/ PostChat
    \/ ErrorHandler
    \/ BlockingReturn
    \/ RecvChunk
    \/ TransportFail
    \/ ExtractLine
    \/ Return

Spec == Init /\ [][Next]_vars

\* ================================================================ claims
\* What the specification says of a stream, stated on the text and not on
\* the decoder's steps.

\* The call is in, or has left, handle_streaming_response's loop.
Streaming == mode = "streaming" /\ status = StatusOK /\ pc \in {"iter", "while", "done"}

\* The bytes handed out so far, and their text.
Received == Take(body, pos)
ReceivedText == Utf8Decode(Received)

\* The newline-terminated lines of a text, in order, without their newlines.
RECURSIVE CompleteLines(_)
CompleteLines(text) ==
    LET i == IndexOf(text, NL) IN
    IF i = 0 THEN <<>> ELSE <<Take(text, i - 1)>> \o CompleteLines(Drop(text, i))

\* What follows the last newline of a text (the whole text when it has none).
TailFragment(text) == Drop(text, LastIndexOf(text, NL))

\* The text of a line that is parsed: trimmed, without the 'data: ' prefix.
RecordText(line) ==
    LET l == Strip(line) IN IF StartsWith(l, Str_data) THEN Drop(l, Len(Str_data)) ELSE l

\* The line is empty after trimming, or is no structured record.
IsDiscardedLine(line) == Strip(line) = <<>> \/ ~JsonLoads(RecordText(line)).ok

\* The line decodes to a record of kind "message" with an answer.
IsMessageLine(line) ==
    LET r == JsonLoads(RecordText(line)) IN
    /\ Strip(line) # <<>>
    /\ r.ok
    /\ r.v.t = "obj"
    /\ HasKey(r.v, Str_event)
    /\ GetKey(r.v, Str_event) = JStr(Str_message)
    /\ HasKey(r.v, Str_answer)

AnswerOf(line) == GetKey(JsonLoads(RecordText(line)).v, Str_answer)

\* The answers of the message lines among the lines, in order.
MessageAnswers(lines) ==
    LET ms == SelectSeq(lines, IsMessageLine) IN [i \in 1..Len(ms) |-> AnswerOf(ms[i])]

\* The Answer of a text: the answer fragments of its complete message lines,
\* concatenated in order.
ExpectedAnswer(text) ==
    LET as == MessageAnswers(CompleteLines(text)) IN
    JStr(Flatten([i \in 1..Len(as) |-> as[i].s]))

\* The line the while loop extracts next.
NextLine == Take(buffer, IndexOf(buffer, NL) - 1)

Text_Hi == <<72, 105>>
\* An empty line, a comment line, then a message line.
ExampleBody == JoinLines(<<Line_empty, Line_ka, Line_hi>>, TRUE)

\* C1: however the stream is cut into chunks, the decode loop terminates
\* normally and returns the Answer it returns when the whole stream arrives as
\* one chunk (stated for the streams whose one-chunk run returns, and for the
\* runs the transport does not fail).
C1_ChunkingInsensitive ==
    (/\ mode = "streaming"
     /\ status = StatusOK
     /\ pc \in {"done", "raised"}
     /\ error # "ChunkedEncodingError"
     /\ OneChunkOutcome(body).error = "")
    => (pc = "done" /\ result = OneChunkOutcome(body).result)

\* C2: a complete line that parses as a structured record of an unexpected
\* shape raises no error, leaves Answer unchanged, and the loop goes on.
C2_UnexpectedShapeIgnored ==
    [][(/\ pc = "while"
        /\ ~IsDiscardedLine(NextLine)
        /\ ~IsMessageLine(NextLine))
       => (/\ pc' \in {"while", "iter"}
           /\ error' = ""
           /\ answer_list' = answer_list)]_vars

\* C3: a complete line that is empty after trimming, or that fails to parse,
\* is discarded without an error and without a change of Answer, and decoding
\* goes on with the text after it; the stream of an empty line, a non-JSON line
\* and a message line returns that message's answer.
C3_MalformedLineDiscarded ==
    [][/\ (pc = "while" /\ IsDiscardedLine(NextLine))
          => (/\ pc' \in {"while", "iter"}
              /\ error' = ""
              /\ answer_list' = answer_list
              /\ printed' = printed
              /\ buffer' = Drop(buffer, IndexOf(buffer, NL)))
       /\ (pc' = "done" /\ mode' = "streaming" /\ body' = ExampleBody)
          => result' = JStr(Text_Hi)]_vars

C3_Witness ==
    /\ pc = "done"
    /\ mode = "streaming"
    /\ body = ExampleBody
    /\ result = JStr(Text_Hi)

\* C4: the Answer returned at the end of the stream is the concatenation, in
\* stream order, of the answers of exactly the newline-terminated lines that
\* decode to a "message" record with an answer.
C4_AnswerIsConcatenation ==
    (Streaming /\ pc = "done")
    => LET d == ReceivedText IN
       /\ pos = Len(body)
       /\ d.ok
       /\ result = ExpectedAnswer(d.text)

\* Two different fragments were joined, after a ping that carried an answer.
C4_Witness ==
    /\ Streaming
    /\ pc = "done"
    /\ body = JoinLines(<<Line_hi, Line_ni>>, TRUE)
    /\ result = JStr(Text_Hi \o <<20320>>)

C4_WitnessPing ==
    /\ Streaming
    /\ pc = "done"
    /\ body = JoinLines(<<Line_ping, Line_hi>>, TRUE)
    /\ result = JStr(Text_Hi)

\* C5: text left in the buffer at the end of the stream is discarded: the
\* Answer is the one of the stream without that trailing fragment.
C5_TrailingFragmentDiscarded ==
    (Streaming /\ pc = "done" /\ TailFragment(body) # <<>>)
    => (/\ buffer = Utf8Decode(TailFragment(body)).text
        /\ result = OneChunkOutcome(Take(body, LastIndexOf(body, NL))).result
        /\ result = ExpectedAnswer(Utf8Decode(Take(body, LastIndexOf(body, NL))).text))

\* The stream ended in the middle of a well-formed message line.
C5_Witness ==
    /\ Streaming
    /\ pc = "done"
    /\ body = JoinLines(<<Line_hi, Line_ni>>, FALSE)
    /\ IsMessageLine(buffer)
    /\ result = JStr(Text_Hi)

\* C6: whenever the decoder waits for a chunk, the answers taken so far are
\* those of the lines whose newline has arrived, each taken and shown once,
\* whatever chunks the lines came in.
C6_SplitLineDecodedOnce ==
    (Streaming /\ pc \in {"iter", "done"})
    => LET d == ReceivedText IN
       /\ d.ok
       /\ answer_list = MessageAnswers(CompleteLines(d.text))
       /\ printed = answer_list

\* A line longer than a chunk was decoded: it came in two chunks or more.
C6_Witness ==
    /\ Streaming
    /\ pc = "iter"
    /\ Len(Line_hi) > ChunkSize
    /\ body = JoinLines(<<Line_hi>>, TRUE)
    /\ pos = Len(body)
    /\ answer_list = <<JStr(Text_Hi)>>

\* C7: a call ends by returning a value after the stream is exhausted, or by
\* raising one error; a transport failure in the loop returns nothing.
C7_ReturnOrRaise ==
    /\ pc = "done" => (error = "" /\ result # NoResult /\ (mode = "streaming" => pos = Len(body)))
    /\ pc = "raised" => (error # "" /\ result = NoResult)
    /\ pc \notin {"done", "raised"} => (error = "" /\ result = NoResult)

\* The transport failed after a fragment had been taken.
C7_Witness ==
    /\ pc = "raised"
    /\ error = "ChunkedEncodingError"
    /\ answer_list # <<>>
    /\ pos < Len(body)
    /\ result = NoResult

\* C8: a chat response of a status other than 200 makes the call raise
\* DifyAPIError before streaming begins: no chunk is read, no buffer or answer
\* is made, nothing is shown, nothing is returned.
C8_RefusedBeforeStreaming ==
    (status # 0 /\ status # StatusOK)
    => (/\ pc \in {"handler", "raised"}
        /\ pc = "raised" => error = "DifyAPIError"
        /\ pos = 0
        /\ buffer = <<>>
        /\ answer_list = <<>>
        /\ printed = <<>>
        /\ result = NoResult)

\* C8, without the exception's class: what holds of the code.
RefusedNeverStreams ==
    (status # 0 /\ status # StatusOK)
    => (/\ pc \in {"handler", "raised"}
        /\ pos = 0
        /\ buffer = <<>>
        /\ answer_list = <<>>
        /\ printed = <<>>
        /\ result = NoResult)

\* C9: the buffer is the text received so far without the lines extracted
\* from its front, each with its newline; it holds no newline when the decoder
\* waits for a chunk or the stream has ended.
C9_LineBufferInvariant ==
    Streaming
    => LET text == ReceivedText.text
           k == Len(text) - Len(buffer)
       IN /\ ReceivedText.ok
          /\ k >= 0
          /\ buffer = Drop(text, k)
          /\ k > 0 => text[k] = NL
          /\ pc \in {"iter", "done"} => buffer = TailFragment(text)
          /\ pc = "while" => HasNewline(buffer)

\* A line has been extracted, a complete line is at the front of the buffer
\* and the fragment of a third behind it.
C9_Witness ==
    /\ Streaming
    /\ pc = "while"
    /\ Len(CompleteLines(buffer)) >= 1
    /\ TailFragment(buffer) # <<>>
    /\ buffer # ReceivedText.text

\* The files before index i passed both checks.
ChecksPassed(i) ==
    \A j \in 1..(i - 1) : files[j] \in ExistingFiles /\ FileExt(files[j]) \in AllowedExts

\* C10: the chat request is sent at most once and only after every listed
\* file passed its checks and was uploaded, in list order; a file that fails a
\* check, or whose upload is answered with a status other than 200 and 201,
\* raises DifyAPIError, and then no later file is uploaded and no chat request
\* is sent; the payload lists the uploaded ids in order.
C10_UploadThenChat ==
    /\ Len(chats) <= 1
    /\ uploads = Take(files, Len(uploads))
    /\ Len(uploads) \in {idx - 1, idx}
    /\ chats # <<>>
       => (/\ uploads = files
           /\ ChecksPassed(Len(files) + 1)
           /\ Len(uploaded_file_ids) = Len(files)
           /\ Len(chats[1].files) = Len(uploaded_file_ids)
           /\ \A i \in 1..Len(uploaded_file_ids) :
                  chats[1].files[i].upload_file_id = uploaded_file_ids[i])
    /\ (pc = "raised" /\ status = 0)
       => (/\ chats = <<>>
           /\ idx <= Len(files)
           /\ ChecksPassed(idx)
           /\ Len(uploads) = idx - 1 => error = "DifyAPIError"
           /\ (Len(uploads) = idx /\ upload_status \notin {StatusOK, StatusCreated})
              => error = "DifyAPIError")

\* C10, without the exception's class: what holds of the code.
UploadOrderHolds ==
    /\ Len(chats) <= 1
    /\ uploads = Take(files, Len(uploads))
    /\ Len(uploads) \in {idx - 1, idx}
    /\ chats # <<>>
       => (/\ uploads = files
           /\ ChecksPassed(Len(files) + 1)
           /\ Len(uploaded_file_ids) = Len(files)
           /\ Len(chats[1].files) = Len(uploaded_file_ids)
           /\ \A i \in 1..Len(uploaded_file_ids) :
                  chats[1].files[i].upload_file_id = uploaded_file_ids[i])
    /\ (pc = "raised" /\ status = 0)
       => (/\ chats = <<>>
           /\ idx <= Len(files)
           /\ ChecksPassed(idx))

====
